---- MODULE Spec2Model ----
(***************************************************************************)
(* Mining orchestrator of midnight_fetcher_bot: the challenge poll loop,   *)
(* the worker batch scheduler, the per-address miner, the solution         *)
(* submitter, the receipt-journal resume and the dev-fee check, as one     *)
(* state machine.  Every action is one synchronous run of the single       *)
(* JavaScript thread: from an event (a call from the host, a timer, a      *)
(* network response) up to the next await of every function it resumes.    *)
(***************************************************************************)
EXTENDS Integers, Sequences, FiniteSets, TLC

\* ------------------------------------------------------------------ bounds
NumAddr == 3            \* user addresses of the largest wallet
WalletSize == 1         \* user addresses of the wallet of Spec
NumChal == 2            \* challenge ids the remote service issues, in order
NumHash == 2            \* distinct qualifying digests the hash service returns
MaxQual == 2            \* qualifying digests in one hash batch
MaxPoll == 2            \* poll chains (pending timer or tick in flight)
MaxRuns == 2            \* startMining invocations not yet returned
MaxFees == 1            \* fire-and-forget fee checks not yet returned
MaxCalls == 2           \* effective calls of start() and stop() by the host
NumClient == 2          \* client ids generateClientId() can return
MaxOnes == 2            \* one bits of an integer handed to numberToNonce
workerThreads == 2      \* addresses mined in parallel by one batch

ratio == 25                          \* DevFeeConfig.ratio, the default

Addrs == 1..NumAddr
DevFeeAddr == 0                      \* the fee recipient (index -1 in the code)
Idents == Addrs \cup {DevFeeAddr}
Chals == 1..NumChal
Hashes == 1..NumHash
PollIds == 1..MaxPoll
RunIds == 1..MaxRuns
FeeIds == 1..(MaxRuns + MaxFees)      \* fee check r <= MaxRuns ends run r
FireIds == (MaxRuns + 1)..(MaxRuns + MaxFees)
NoChal == 0                          \* currentChallengeId = null
After == NumChal + 1                 \* remote code 'after'

VARIABLES
  isRunning, isMining, currentChallengeId, currentChallenge,
  pollTimer, walletManager, addresses, registered,
  addressesProcessedCurrentChallenge, submittedSolutions,
  solvedAddressChallenges, userSolutionsCount,
  totalDevFeeSolutions, cacheAddress, receipts,
  startPc, regTodo, poll, runs, fees, miners,
  walletFile, errorListener, remote, romReady, callsLeft,
  postCount, hashCount, emitted,
  solutionsFound, errorLog, clientId, priorCache, observed, digests,
  nonceArg, nonceOut, stopSeen, feeCall, feeOut

orch == <<isRunning, isMining, currentChallengeId, currentChallenge>>
dedup == <<addressesProcessedCurrentChallenge, submittedSolutions,
           solvedAddressChallenges>>
wallet == <<walletManager, addresses, registered>>
feeState == <<totalDevFeeSolutions, cacheAddress, clientId, priorCache>>
counters == <<userSolutionsCount, solutionsFound>>
journals == <<receipts, errorLog>>
startVars == <<startPc, regTodo>>
host == <<walletFile, errorListener, observed, digests>>
lib == <<nonceArg, nonceOut, feeCall, feeOut>>
env == <<host, remote, romReady, callsLeft, lib>>
ghost == <<postCount, hashCount, stopSeen>>

vars == <<isRunning, isMining, currentChallengeId, currentChallenge,
          pollTimer, walletManager, addresses, registered,
          addressesProcessedCurrentChallenge, submittedSolutions,
          solvedAddressChallenges, userSolutionsCount,
          totalDevFeeSolutions, cacheAddress, receipts,
          startPc, regTodo, poll, runs, fees, miners,
          walletFile, errorListener, remote, romReady, callsLeft,
          postCount, hashCount, emitted,
          solutionsFound, errorLog, clientId, priorCache, observed, digests,
          nonceArg, nonceOut, stopSeen, feeCall, feeOut>>

\* ----------------------------------------------------------------- helpers
Min(S) == CHOOSE x \in S : \A y \in S : x <= y

RECURSIVE FirstN(_, _)
FirstN(S, n) ==
  IF n = 0 \/ S = {} THEN {}
  ELSE {Min(S)} \cup FirstN(S \ {Min(S)}, n - 1)

NoPoll == [pc |-> "none", chal |-> NoChal]
NoRun == [pc |-> "none", chal |-> NoChal, rest |-> {}]
NoFee == [pc |-> "none", left |-> 0]

FreePoll == {c \in PollIds : poll[c].pc = "none"}
FreeRuns == {r \in RunIds : runs[r].pc = "none"}
FreeFees == {f \in FireIds : fees[f].pc = "none"}

\* The miners a scheduler run (kind "run") or a fee check (kind "fee") awaits.
MinersOf(kind, id) == {m \in miners : m.kind = kind /\ m.owner = id}


\* A miner awaiting its hash batch (pc "hash") or its submission POST (pc
\* "submit"): the address, the challenge id it captured when it started, and
\* for a POST in flight the digest and the challenge id of the URL.
Miner(kind, owner, addr, chal) ==
  [kind |-> kind, owner |-> owner, addr |-> addr, chal |-> chal,
   pc |-> "hash", hash |-> 0, subChal |-> NoChal]

Receipt(addr, chal, hash, fee) ==
  [address |-> addr, challenge_id |-> chal, hash |-> hash, isDevFee |-> fee]

\* The record logError appends for a failed submission (lines 798-806).
ErrorRecord(addr, chal, hash) ==
  [address |-> addr, challenge_id |-> chal, hash |-> hash]

Bump(n) == IF n < 2 THEN n + 1 ELSE 2      \* history counts: 0, 1, "2 or more"

\* The event stream, as far as the properties below read it: `emitted` holds
\* the events of the types in `observed` that the last step published.
Publish(events) == events \cap observed

\* The receipt journal: append-only, read whole at startup.  No code reads
\* the order of its records, so it is kept as the number of copies of each.
EmptyJournal == [r \in {} |-> 0]

LogReceipt_None(journal, rec) == journal

LogReceipt(journal, rec) ==
  IF rec \in DOMAIN journal
    THEN [journal EXCEPT ![rec] = @ + 1]
    ELSE journal @@ (rec :> 1)

RECURSIVE JournalSize(_, _)
JournalSize(journal, recs) ==
  IF recs = {} THEN 0
  ELSE LET r == CHOOSE x \in recs : TRUE
       IN journal[r] + JournalSize(journal, recs \ {r})

\* userReceipts of line 843.
UserReceipts(journal) == {r \in DOMAIN journal : ~r.isDevFee}

\* devFeeReceipts of line 844.
DevFeeReceipts(journal) == {r \in DOMAIN journal : r.isDevFee}

\* ---------------------------------------------------------- DevFeeManager
\* The cache file on disk: absent, or the DevFeeCache an earlier instance
\* saved.  clientId 0 is `undefined`, currentAddress FALSE is `null`.
NoCacheFile ==
  [exists |-> FALSE, currentAddress |-> FALSE, totalDevFeeSolutions |-> 0,
   clientId |-> 0]

CacheFile(address, total, id) ==
  [exists |-> TRUE, currentAddress |-> address, totalDevFeeSolutions |-> total,
   clientId |-> id]

DefaultCache ==
  [currentAddress |-> FALSE, totalDevFeeSolutions |-> 0, clientId |-> 0]

\* Whether this.config is assigned when the constructor calls loadCache():
\* line 45 runs before the assignment of line 50.
ConfigAtLoad == FALSE

\* loadCache(): reading this.config.cacheFile of an unassigned config throws
\* inside the try, and the catch falls through to the default cache.
LoadCache(config, file) ==
  IF config /\ file.exists
    THEN [currentAddress |-> file.currentAddress,
          totalDevFeeSolutions |-> file.totalDevFeeSolutions,
          clientId |-> file.clientId]
    ELSE DefaultCache

\* The constructor: the cache, with the client id of the cache or else the
\* one generateClientId() returns.
DevFeeManager(file, newId) ==
  LET cache == LoadCache(ConfigAtLoad, file)
  IN [cache EXCEPT !.clientId = IF cache.clientId # 0 THEN @ ELSE newId]

\* What a call that throws returns to its caller.
Thrown == <<"Error">>

\* ------------------------------- DevFeeManager, the recipient in detail
\* Time is in milliseconds since the manager was constructed.
MaxFetch == 2           \* calls of getDevFeeAddress in one behaviour
MaxUsed == 1            \* fee solutions recorded in one behaviour
ONE_HOUR == 3600000

Tnight1 == <<"t", "n", "i", "g", "h", "t", "1">>
Addr1 == <<"a", "d", "d", "r", "1">>

\* String.prototype.startsWith.
StartsWith(str, prefix) ==
  /\ Len(str) >= Len(prefix)
  /\ SubSeq(str, 1, Len(prefix)) = prefix

\* The format test of line 143.
ValidFormat(devAddress) ==
  StartsWith(devAddress, Tnight1) \/ StartsWith(devAddress, Addr1)

\* cache.currentAddress = null.
NoCurrent ==
  [address |-> <<>>, addressIndex |-> 0 - 1, fetchedAt |-> 0, usedCount |-> 0]

\* fetchDevFeeAddress() at time `now`, the POST being answered by `response`
\* (ok = FALSE: it rejected): lines 119-175 for an enabled manager.
FetchDevFeeAddressOf(cache, now, response) ==
  IF response.ok /\ ValidFormat(response.devAddress)
    THEN [result |-> response.devAddress, called |-> TRUE,
          cache |-> [cache EXCEPT
                       !.currentAddress =
                         [address |-> response.devAddress,
                          addressIndex |-> response.devAddressIndex,
                          fetchedAt |-> now, usedCount |-> 0],
                       !.lastFetchError = FALSE]]
    ELSE [result |-> IF cache.currentAddress # NoCurrent
                       THEN cache.currentAddress.address ELSE Thrown,
          called |-> TRUE,
          cache |-> [cache EXCEPT !.lastFetchError = TRUE]]

GetDevFeeAddressOf_NoExpiry(cache, now, response) ==
  IF cache.currentAddress # NoCurrent
    THEN [result |-> cache.currentAddress.address, called |-> FALSE,
          cache |-> cache]
    ELSE FetchDevFeeAddressOf(cache, now, response)

\* getDevFeeAddress() at time `now`, lines 177-193.
GetDevFeeAddressOf(cache, now, response) ==
  IF /\ cache.currentAddress # NoCurrent
     /\ now - cache.currentAddress.fetchedAt < ONE_HOUR
    THEN [result |-> cache.currentAddress.address, called |-> FALSE,
          cache |-> cache]
    ELSE FetchDevFeeAddressOf(cache, now, response)

\* ------------------------------------------------------------ nonce.ts
\* A non-negative integer is written as the set of the positions of its one
\* bits: 5 is {0, 2}.  A JavaScript number holds MantissaBits significant
\* bits; a string is a sequence of one-character strings.
NonceBits == 64
MantissaBits == 53
NonceLen == 16
HexChars ==
  <<"0", "1", "2", "3", "4", "5", "6", "7",
    "8", "9", "a", "b", "c", "d", "e", "f">>

Top(S) == CHOOSE x \in S : \A y \in S : y <= x

\* The bits of a small integer b >= 0.
Bits(b) == {k \in 0..30 : (b \div (2 ^ k)) % 2 = 1}

\* The number value an integer takes when it is passed as `num: number`:
\* the nearest double, ties to the even mantissa.
ToNumber(S) ==
  IF S = {} \/ Top(S) < MantissaBits
    THEN S
    ELSE LET lo == Top(S) - (MantissaBits - 1)
             kept == {k \in S : k >= lo}
             roundUp == /\ (lo - 1) \in S
                        /\ (lo \in S \/ \E k \in S : k < lo - 1)
             j == CHOOSE x \in lo..(Top(S) + 1) :
                    x \notin kept /\ \A y \in lo..(x - 1) : y \in kept
         IN  IF roundUp THEN {k \in kept : k > j} \cup {j} ELSE kept

\* Number.prototype.toString(16) of an integer-valued number.
ToString16(S) ==
  IF S = {}
    THEN <<"0">>
    ELSE LET n == (Top(S) \div 4) + 1
             Digit(i) ==
               (IF 4 * i \in S THEN 1 ELSE 0)
               + (IF 4 * i + 1 \in S THEN 2 ELSE 0)
               + (IF 4 * i + 2 \in S THEN 4 ELSE 0)
               + (IF 4 * i + 3 \in S THEN 8 ELSE 0)
         IN  [p \in 1..n |-> HexChars[Digit(n - p) + 1]]

\* String.prototype.padStart(len, '0').
PadStart(str, len) ==
  IF Len(str) >= len
    THEN str
    ELSE [p \in 1..(len - Len(str)) |-> "0"] \o str

\* The integer a string of hexadecimal digits denotes.
HexValue(ch) == CHOOSE d \in 0..15 : HexChars[d + 1] = ch

ReadHex(str) ==
  {4 * (Len(str) - p) + b : p \in 1..Len(str), b \in 0..3} \cap
  {k \in 0..(4 * Len(str)) :
     \E p \in 1..Len(str) :
       /\ k \div 4 = Len(str) - p
       /\ (k % 4) \in Bits(HexValue(str[p]))}

\* numberToNonce(num), lines 41-43.
NumberToNonceOf(num) == PadStart(ToString16(num), NonceLen)

\* generateNonce(workerId) with the seven values floor(Math.random() * 256)
\* in random, lines 12-34.
GenerateNonceOf(workerId, random) ==
  LET bytes == <<workerId % 256>> \o random
      Hex(b) == PadStart(ToString16(Bits(b)), 2)
      nonce == Hex(bytes[1]) \o Hex(bytes[2]) \o Hex(bytes[3])
               \o Hex(bytes[4]) \o Hex(bytes[5]) \o Hex(bytes[6])
               \o Hex(bytes[7]) \o Hex(bytes[8])
  IN  IF Len(nonce) # NonceLen THEN Thrown ELSE nonce

NONCE_RANGE_SIZE == 1000000000

\* The sum of two integers, bit by bit with its carries.
RECURSIVE Plus(_, _)
Plus(A, B) ==
  IF B = {} THEN A
  ELSE Plus((A \cup B) \ (A \cap B), {k + 1 : k \in A \cap B})

\* The product of a small integer n >= 0 and an integer.
RECURSIVE Times(_, _)
Times(n, A) == IF n = 0 THEN {} ELSE Plus(Times(n - 1, A), A)

\* A < B.
Less(A, B) == A # B /\ Top((A \ B) \cup (B \ A)) \in B

\* getWorkerNonceRange(workerId) as <<start, end>>, lines 50-55.
GetWorkerNonceRangeOf(workerId) ==
  LET start == ToNumber(Times(workerId, Bits(NONCE_RANGE_SIZE)))
      end == ToNumber(Plus(start, Bits(NONCE_RANGE_SIZE)))
  IN  <<start, end>>

\* ------------------------------------------------------------------- Init
\* The environment of a first installation: the wallet file derives
\* `wallet`, the host makes at most `calls` effective calls and has its
\* 'error' listener attached or not, `journal` and `cache` are the receipt
\* journal and the fee cache file on disk, generateClientId() returns
\* `newId`, the remote service is at `remote` (0 before the first challenge),
\* the hash service returns the qualifying digests `digests`, and `observed`
\* are the event types recorded in `emitted`; `nonce` is the call of a
\* function of nonce.ts the host is about to make, if any, and `fee` the
\* calls of DevFeeManager.getDevFeeAddress a test harness is about to make.
Fresh ==
  [wallet |-> 1..WalletSize, calls |-> MaxCalls, journal |-> EmptyJournal,
   listener |-> FALSE, cache |-> NoCacheFile, newId |-> 1, remote |-> 0,
   digests |-> Hashes, observed |-> {"error", "log_before"},
   nonce |-> [fn |-> "none"], fee |-> [fn |-> "none"]]

\* The state after construction in environment e.
InitWith(e) ==
  /\ isRunning = FALSE
  /\ isMining = FALSE
  /\ currentChallengeId = NoChal
  /\ currentChallenge = NoChal
  /\ pollTimer = 0
  /\ walletManager = FALSE
  /\ addresses = {}
  /\ registered = {}
  /\ addressesProcessedCurrentChallenge = {}
  /\ submittedSolutions = {}
  /\ solvedAddressChallenges = {}
  /\ userSolutionsCount = 0
  /\ solutionsFound = 0
  /\ totalDevFeeSolutions =
       DevFeeManager(e.cache, e.newId).totalDevFeeSolutions
  /\ cacheAddress = DevFeeManager(e.cache, e.newId).currentAddress
  /\ clientId = DevFeeManager(e.cache, e.newId).clientId
  /\ priorCache = e.cache
  /\ receipts = e.journal
  /\ errorLog = EmptyJournal
  /\ startPc = "idle"
  /\ regTodo = {}
  /\ poll = [c \in PollIds |-> NoPoll]
  /\ runs = [r \in RunIds |-> NoRun]
  /\ fees = [f \in FeeIds |-> NoFee]
  /\ miners = {}
  /\ walletFile = e.wallet
  /\ errorListener = e.listener
  /\ observed = e.observed
  /\ digests = e.digests
  /\ nonceArg = e.nonce
  /\ nonceOut = <<>>
  /\ feeCall = e.fee
  /\ feeOut = <<>>
  /\ remote = e.remote
  /\ romReady = FALSE
  /\ callsLeft = e.calls
  /\ postCount = [p \in Idents \X Chals |-> 0]
  /\ hashCount = [h \in e.digests |-> 0]
  /\ stopSeen = {}
  /\ emitted = {}

Init == InitWith(Fresh)

\* ------------------------------------------------- loadSubmittedSolutions
LoadedReceipts_None(journal) == {}

\* The receipts the load loop of line 851 walks.
LoadedReceipts(journal) == UserReceipts(journal)

LoadSubmittedSolutions ==
  /\ userSolutionsCount' = JournalSize(receipts, UserReceipts(receipts))
  /\ submittedSolutions' =
       submittedSolutions \cup {r.hash : r \in LoadedReceipts(receipts)}
  /\ solvedAddressChallenges' =
       solvedAddressChallenges \cup
         {<<r.address, r.challenge_id>> : r \in LoadedReceipts(receipts)}

\* ------------------------------------------------------------ start, stop
\* start(): returns at once when already running, else awaits the wallet.
\* startPc is "idle" while no call of start() is pending and the last one,
\* if any, returned, and "failed" while none is pending and the last one
\* rejected.
StartCall ==
  /\ startPc \in {"idle", "failed"}
  /\ emitted' = Publish({})
  /\ IF isRunning
       THEN startPc' = "idle" /\ UNCHANGED <<walletManager, callsLeft>>
       ELSE /\ callsLeft > 0
            /\ callsLeft' = callsLeft - 1
            /\ startPc' = "load"
            /\ walletManager' = TRUE
  /\ UNCHANGED <<orch, pollTimer, addresses, registered, dedup,
                 counters, feeState, journals, regTodo, poll, runs,
                 fees, miners, host, lib, remote, romReady, ghost>>

WalletLoadFail_Running ==
  /\ startPc = "load"
  /\ startPc' = "failed"
  /\ isRunning' = TRUE
  /\ emitted' = Publish({"status_active"})
  /\ UNCHANGED <<isMining, currentChallengeId, currentChallenge, pollTimer,
                 wallet, dedup, counters, feeState, journals, regTodo, poll,
                 runs, fees, miners, env, ghost>>

\* loadWallet rejects (wrong password, no wallet file): the await of line
\* 210 throws and the promise of start() is rejected.
WalletLoadFail ==
  /\ startPc = "load"
  /\ startPc' = "failed"
  /\ emitted' = Publish({})
  /\ UNCHANGED <<orch, pollTimer, wallet, dedup, counters, feeState,
                 journals, regTodo, poll, runs, fees, miners, env, ghost>>

\* loadWallet resolves: the journal is loaded and registration begins.
WalletLoaded ==
  /\ startPc = "load"
  /\ addresses' = walletFile
  /\ LoadSubmittedSolutions
  /\ regTodo' = walletFile \ registered
  /\ startPc' = "reg"
  /\ emitted' = Publish({})
  /\ UNCHANGED <<orch, pollTimer, walletManager, registered,
                 addressesProcessedCurrentChallenge, feeState, journals, poll,
                 runs, fees, miners, env, ghost, solutionsFound>>

RegisterReturn_Abort(ok) ==
  /\ startPc = "reg"
  /\ regTodo # {}
  /\ regTodo' = IF ok THEN regTodo \ {Min(regTodo)} ELSE {}
  /\ registered' = IF ok THEN registered \cup {Min(regTodo)} ELSE registered
  /\ emitted' = Publish({"registration_progress"} \cup
                        (IF ok THEN {} ELSE {"registration_failed"}))
  /\ UNCHANGED <<orch, pollTimer, walletManager, addresses, dedup,
                 counters, feeState, journals, startPc, poll, runs,
                 fees, miners, env, ghost>>

\* registerAddress for the next unregistered address: the three requests
\* succeed (the address is marked registered) or one of them fails (the
\* registration_progress event of line 1001, recorded as
\* "registration_failed").
RegisterReturn(ok) ==
  /\ startPc = "reg"
  /\ regTodo # {}
  /\ regTodo' = regTodo \ {Min(regTodo)}
  /\ registered' = IF ok THEN registered \cup {Min(regTodo)} ELSE registered
  /\ emitted' = Publish({"registration_progress"} \cup
                        (IF ok THEN {} ELSE {"registration_failed"}))
  /\ UNCHANGED <<orch, pollTimer, walletManager, addresses, dedup,
                 counters, feeState, journals, startPc, poll, runs,
                 fees, miners, env, ghost>>

\* The rest of start(): the running flag is set and pollLoop() makes the
\* first challenge fetch.
StartFinish ==
  /\ startPc = "reg"
  /\ regTodo = {}
  /\ FreePoll # {}
  /\ isRunning' = TRUE
  /\ poll' = [poll EXCEPT ![Min(FreePoll)] = [pc |-> "fetch", chal |-> NoChal]]
  /\ solutionsFound' = 0
  /\ startPc' = "idle"
  /\ emitted' = Publish({"status_active"})
  /\ UNCHANGED <<isMining, currentChallengeId, currentChallenge, pollTimer,
                 wallet, dedup, userSolutionsCount, feeState, journals,
                 regTodo, runs, fees, miners, env, ghost>>

\* History: the scheduler runs that were in flight at a moment the running
\* flag went from set to cleared (line 238).
StopSeen(seen, running, rs) ==
  IF running THEN seen \cup {r \in RunIds : rs[r].pc # "none"} ELSE seen

\* clearTimeout(pollTimer) cancels the timer only while it is pending.
ClearTimer(p, handle) ==
  IF handle # 0 /\ p[handle].pc = "timer"
    THEN [p EXCEPT ![handle] = NoPoll]
    ELSE p

Stop ==
  /\ IF isRunning \/ pollTimer # 0
       THEN callsLeft > 0 /\ callsLeft' = callsLeft - 1
       ELSE UNCHANGED callsLeft
  /\ isRunning' = FALSE
  /\ poll' = ClearTimer(poll, pollTimer)
  /\ pollTimer' = 0
  /\ emitted' = Publish({"status_stopped"})
  /\ stopSeen' = StopSeen(stopSeen, isRunning, runs)
  /\ UNCHANGED <<isMining, currentChallengeId, currentChallenge, wallet, dedup,
                 counters, feeState, journals, startVars, runs, fees,
                 miners, host, lib, remote, romReady, postCount, hashCount>>

\* ------------------------------------------------------ checkAndMineDevFee
DevFeesNeeded_Ceil(userCount, paid) ==
  ((userCount + ratio - 1) \div ratio) - paid

\* devFeesNeeded, from the counters at the time of the check.
DevFeesNeeded(userCount, paid) == (userCount \div ratio) - paid

\* The check up to its first await: nothing to do, or round 1 awaits the
\* recipient address.
FeeCheck(userCount, paid) ==
  IF DevFeesNeeded(userCount, paid) > 0
    THEN [pc |-> "addr", left |-> DevFeesNeeded(userCount, paid)]
    ELSE NoFee

\* ------------------------------------------------------------ startMining
RunBreaks_Never(running, mining, cur, chal) == FALSE

\* The loop test of line 500.
RunBreaks(running, mining, cur, chal) ==
  ~running \/ ~mining \/ cur # chal

AddressesToMine_All(chal) == addresses

\* The addresses startMining mines: registered and not solved for challenge.
AddressesToMine(chal) ==
  {a \in addresses :
     a \in registered /\ <<a, chal>> \notin solvedAddressChallenges}

BatchReturned_Any(ms, r) == TRUE

\* Promise.all of line 509: the batch of run r is over when none of its
\* miners is left among ms.
BatchReturned(ms, r) == {m \in ms : m.kind = "run" /\ m.owner = r} = {}

\* One turn of the batch loop of run r over the addresses `rest` not yet
\* started, with the flags as they are when the turn runs.  Each miner of the
\* next batch runs up to its first await (mineForAddress returns at once
\* while the ROM is not ready, so then every remaining batch returns at once).
\* When the loop ends, the end-of-run fee check runs up to its first await
\* and, when it has nothing to do, the mining flag is cleared (line 515).
RunTurn(r, chal, rest, running, mining, cur, ready, userCount, paid) ==
  IF rest = {} \/ RunBreaks(running, mining, cur, chal) \/ ~ready
    THEN IF FeeCheck(userCount, paid).pc = "none"
           THEN [run |-> NoRun, fee |-> NoFee, new |-> {}, mining |-> FALSE]
           ELSE [run |-> [pc |-> "fee", chal |-> chal, rest |-> {}],
                 fee |-> FeeCheck(userCount, paid), new |-> {},
                 mining |-> mining]
    ELSE [run |-> [pc |-> "batch", chal |-> chal,
                   rest |-> rest \ FirstN(rest, workerThreads)],
          fee |-> NoFee,
          new |-> {Miner("run", r, a, chal) : a \in FirstN(rest, workerThreads)},
          mining |-> mining]

AfterRound_Abort(f, fs, rs, mining) ==
  [runs |-> IF f \in RunIds THEN [rs EXCEPT ![f] = NoRun] ELSE rs,
   mining |-> IF f \in RunIds THEN FALSE ELSE mining,
   fees |-> [fs EXCEPT ![f] = NoFee]]

\* Fee check f after a round: the next round awaits the recipient address,
\* or the check returns; the check that ends run f then clears the mining
\* flag (line 515).
AfterRound(f, fs, rs, mining) ==
  IF fs[f].left > 1
    THEN [runs |-> rs, mining |-> mining,
          fees |-> [fs EXCEPT ![f] = [pc |-> "addr", left |-> fs[f].left - 1]]]
    ELSE [runs |-> IF f \in RunIds THEN [rs EXCEPT ![f] = NoRun] ELSE rs,
          mining |-> IF f \in RunIds THEN FALSE ELSE mining,
          fees |-> [fs EXCEPT ![f] = NoFee]]

\* Miner m has returned: what its caller does next, up to the next await.
\* The scheduler run goes on when the whole batch has returned; the fee check
\* goes on to its next round.  fs, userCount and paid are the fee checks and
\* counters as the returning miner left them.
Finish(m, fs, userCount, paid) ==
  IF m.kind = "run"
    THEN IF ~BatchReturned(miners \ {m}, m.owner)
           THEN [runs |-> runs, fees |-> fs, miners |-> miners \ {m},
                 mining |-> isMining]
           ELSE LET t == RunTurn(m.owner, runs[m.owner].chal,
                                 runs[m.owner].rest, isRunning, isMining,
                                 currentChallengeId, romReady, userCount, paid)
                IN [runs |-> [runs EXCEPT ![m.owner] = t.run],
                    fees |-> [fs EXCEPT ![m.owner] = t.fee],
                    miners |-> (miners \ {m}) \cup t.new,
                    mining |-> t.mining]
    ELSE LET a == AfterRound(m.owner, fs, runs, isMining)
         IN [runs |-> a.runs, fees |-> a.fees, miners |-> miners \ {m},
             mining |-> a.mining]

\* The action part of a miner's return.
Returns(m, fs, userCount, paid, events) ==
  LET fin == Finish(m, fs, userCount, paid)
  IN /\ runs' = fin.runs
     /\ fees' = fin.fees
     /\ miners' = fin.miners
     /\ isMining' = fin.mining
     /\ addressesProcessedCurrentChallenge' =
          addressesProcessedCurrentChallenge
            \cup {x.addr : x \in fin.miners \ miners}
     /\ emitted' = Publish(events \cup
          (IF fin.miners \subseteq miners THEN {} ELSE {"mining_start"}))

\* ---------------------------------------------------- pollLoop, pollAndMine
\* The tail of pollLoop: the next tick is scheduled.
Schedule(p, c) == [p EXCEPT ![c] = [pc |-> "timer", chal |-> NoChal]]

\* The poll timer of chain c fires: pollLoop returns when not running, else
\* fetches the challenge.
TimerFire(c) ==
  /\ poll[c].pc = "timer"
  /\ poll' = [poll EXCEPT ![c] =
                IF isRunning THEN [pc |-> "fetch", chal |-> NoChal] ELSE NoPoll]
  /\ emitted' = Publish({})
  /\ UNCHANGED <<orch, pollTimer, wallet, dedup, counters, feeState,
                 journals, startVars, runs, fees, miners, env, ghost>>

\* pollAndMine throws (fetch error, initRom error, ROM timeout): pollLoop
\* catches and emits 'error'.  With a listener the event is published and the
\* next tick is scheduled.  With none, EventEmitter.emit throws for 'error',
\* so pollLoop rejects at line 374 and line 381 is not reached.
TickFail(c) ==
  /\ IF errorListener
       THEN /\ poll' = Schedule(poll, c)
            /\ pollTimer' = c
            /\ emitted' = Publish({"error"})
       ELSE /\ poll' = [poll EXCEPT ![c] = NoPoll]
            /\ pollTimer' = pollTimer
            /\ emitted' = Publish({})
  /\ UNCHANGED <<orch, wallet, dedup, counters, feeState, journals,
                 startVars, runs, fees, miners, env, ghost>>

TickReturn_StopsMining(c, logged) ==
  /\ poll' = Schedule(poll, c)
  /\ pollTimer' = c
  /\ emitted' = Publish(logged)
  /\ isMining' = FALSE
  /\ UNCHANGED <<isRunning, currentChallengeId, currentChallenge, wallet,
                 dedup, counters, feeState, journals, startVars, runs, fees,
                 miners, env, ghost>>

\* pollAndMine returns without a transition, having logged `logged`: the
\* next tick is scheduled.
TickReturn(c, logged) ==
  /\ poll' = Schedule(poll, c)
  /\ pollTimer' = c
  /\ emitted' = Publish(logged)
  /\ UNCHANGED <<orch, wallet, dedup, counters, feeState, journals,
                 startVars, runs, fees, miners, env, ghost>>

FetchError(c) ==
  /\ poll[c].pc = "fetch"
  /\ TickFail(c)

\* code 'before' (logged at line 391, recorded as "log_before"), or
\* 'active' with the id already current.
FetchNoop(c) ==
  /\ poll[c].pc = "fetch"
  /\ remote = 0 \/ (remote \in Chals /\ remote = currentChallengeId)
  /\ TickReturn(c, IF remote = 0 THEN {"log_before"} ELSE {})

\* code 'after': stop(), then pollLoop schedules the next tick.
FetchAfter(c) ==
  /\ poll[c].pc = "fetch"
  /\ remote = After
  /\ isRunning' = FALSE
  /\ poll' = Schedule(ClearTimer(poll, pollTimer), c)
  /\ pollTimer' = c
  /\ emitted' = Publish({"status_stopped"})
  /\ stopSeen' = StopSeen(stopSeen, isRunning, runs)
  /\ UNCHANGED <<isMining, currentChallengeId, currentChallenge, wallet, dedup,
                 counters, feeState, journals, startVars, runs, fees,
                 miners, env, postCount, hashCount>>

\* Line 418: the Submitted-Hash Set after the new-challenge reset.
ResetSubmitted(submitted) == {}

\* Lines 416-423: the tracking sets are reset and initRom is called.
ResetAndInit(c, chal) ==
  /\ addressesProcessedCurrentChallenge' = {}
  /\ submittedSolutions' = ResetSubmitted(submittedSolutions)
  /\ romReady' = FALSE
  /\ poll' = [poll EXCEPT ![c] = [pc |-> "rom", chal |-> chal]]

\* code 'active' with a new id: mining is told to stop and the tick sleeps
\* for the grace period, or (not mining) goes straight to the reset.
FetchNew(c) ==
  /\ poll[c].pc = "fetch"
  /\ remote \in Chals
  /\ remote # currentChallengeId
  /\ emitted' = Publish({})
  /\ IF isMining
       THEN /\ isMining' = FALSE
            /\ poll' = [poll EXCEPT ![c] = [pc |-> "grace", chal |-> remote]]
            /\ UNCHANGED <<addressesProcessedCurrentChallenge,
                           submittedSolutions, romReady>>
       ELSE /\ ResetAndInit(c, remote)
            /\ UNCHANGED isMining
  /\ UNCHANGED <<isRunning, currentChallengeId, currentChallenge, pollTimer,
                 wallet, solvedAddressChallenges, counters, feeState,
                 journals, startVars, runs, fees, miners, host, lib, remote,
                 callsLeft, ghost>>

\* The grace period of line 413 is over.
GraceDone(c) ==
  /\ poll[c].pc = "grace"
  /\ ResetAndInit(c, poll[c].chal)
  /\ emitted' = Publish({})
  /\ UNCHANGED <<orch, pollTimer, wallet, solvedAddressChallenges,
                 counters, feeState, journals, startVars, runs, fees,
                 miners, host, lib, remote, callsLeft, ghost>>

InitRomFail_Resumes(c) ==
  /\ poll[c].pc = "rom"
  /\ poll' = IF errorListener THEN Schedule(poll, c)
                              ELSE [poll EXCEPT ![c] = NoPoll]
  /\ pollTimer' = IF errorListener THEN c ELSE pollTimer
  /\ emitted' = Publish(IF errorListener THEN {"error"} ELSE {})
  /\ isMining' = TRUE
  /\ UNCHANGED <<isRunning, currentChallengeId, currentChallenge, wallet,
                 dedup, counters, feeState, journals, startVars, runs, fees,
                 miners, env, ghost>>

\* initRom rejects.
InitRomFail(c) ==
  /\ poll[c].pc = "rom"
  /\ TickFail(c)

\* The readiness wait ran out (60 s) with the ROM still not ready.
RomWaitTimeout(c) ==
  /\ poll[c].pc = "rom"
  /\ ~romReady
  /\ TickFail(c)

RomWaitOver_Always(ready) == TRUE

\* The exit test of the readiness wait (lines 429-435).
RomWaitOver(ready) == ready

\* The ROM is ready: the challenge is recorded as current and, unless mining
\* is flagged, startMining runs up to its first await; then the tick returns.
RomWaitReady(c) ==
  /\ poll[c].pc = "rom"
  /\ RomWaitOver(romReady)
  /\ currentChallengeId' = poll[c].chal
  /\ currentChallenge' = poll[c].chal
  /\ poll' = Schedule(poll, c)
  /\ pollTimer' = c
  /\ IF isMining \/ AddressesToMine(poll[c].chal) = {}
       THEN /\ UNCHANGED <<isMining, runs, fees, miners, stopSeen,
                           addressesProcessedCurrentChallenge>>
            /\ emitted' = Publish({"status_active"})
       ELSE /\ FreeRuns # {}
            /\ stopSeen' = stopSeen \ {Min(FreeRuns)}
            /\ LET r == Min(FreeRuns)
                   t == RunTurn(r, poll[c].chal, AddressesToMine(poll[c].chal),
                                isRunning, TRUE, poll[c].chal, romReady,
                                userSolutionsCount, totalDevFeeSolutions)
               IN /\ runs' = [runs EXCEPT ![r] = t.run]
                  /\ fees' = [fees EXCEPT ![r] = t.fee]
                  /\ miners' = miners \cup t.new
                  /\ isMining' = t.mining
                  /\ addressesProcessedCurrentChallenge' =
                       addressesProcessedCurrentChallenge
                         \cup {m.addr : m \in t.new}
                  /\ emitted' = Publish(IF t.new = {} THEN {"status_active"}
                                        ELSE {"status_active", "mining_start"})
  /\ UNCHANGED <<isRunning, wallet, submittedSolutions,
                 solvedAddressChallenges, counters, feeState,
                 journals, startVars, env, postCount, hashCount>>

\* ---------------------------------------------------------- mineForAddress
LoopOn_Always(running, mining, cur, chal) == TRUE

\* The while test of line 559 for a miner that captured challenge id chal.
LoopOn(running, mining, cur, chal) == running /\ mining /\ cur = chal

\* The first digest of the batch (all of ds meet the difficulty) that is not
\* in the Submitted-Hash Set; 0 when every one is a duplicate.
RECURSIVE FirstFresh(_, _)
FirstFresh(ds, submitted) ==
  IF ds = <<>> THEN 0
  ELSE IF Head(ds) \notin submitted THEN Head(ds)
  ELSE FirstFresh(Tail(ds), submitted)

QualifyingBatches == UNION {[1..n -> digests] : n \in 1..MaxQual}

\* The miner goes round its loop and sends the next hash batch, or leaves
\* the loop when the test fails and returns; `logged` is what the batch
\* that just returned has logged.
NextBatch(m, logged) ==
  /\ IF LoopOn(isRunning, isMining, currentChallengeId, m.chal)
       THEN /\ emitted' = Publish({"hash_progress"} \cup logged)
            /\ UNCHANGED <<isMining, runs, fees, miners,
                           addressesProcessedCurrentChallenge>>
       ELSE Returns(m, fees, userSolutionsCount, totalDevFeeSolutions,
                    {"hash_progress"} \cup logged)
  /\ UNCHANGED <<isRunning, currentChallengeId, currentChallenge, pollTimer,
                 wallet, submittedSolutions, solvedAddressChallenges,
                 counters, feeState, journals, startVars, poll, env,
                 ghost>>

\* The hash batch returns with no digest meeting the difficulty.
HashNone(m) ==
  /\ m.pc = "hash"
  /\ NextBatch(m, {})

HashError_Abort(m) ==
  /\ m.pc = "hash"
  /\ Returns(m, fees, userSolutionsCount, totalDevFeeSolutions,
             {"log_hash_error"})
  /\ UNCHANGED <<isRunning, currentChallengeId, currentChallenge, pollTimer,
                 wallet, submittedSolutions, solvedAddressChallenges,
                 counters, feeState, journals, startVars, poll, env,
                 ghost>>

\* hashBatchAsync rejects: the error is logged (Logger.error of line 652,
\* recorded as "log_hash_error") and the loop goes on.
HashError(m) ==
  /\ m.pc = "hash"
  /\ NextBatch(m, {"log_hash_error"})

\* Whether a hash result that has come back is tested for solutions: the
\* code tests it whatever the flags are by then (lines 585-604).
ResultTested(running, mining, cur, chal) == TRUE

\* The challenge id submitSolution puts in the URL and in the receipt for a
\* miner that captured `chal`: the one current at that moment (lines 691, 754).
SubmitChallenge(cur, chal) == cur

\* The hash batch returns with the qualifying digests ds: duplicates are
\* skipped; the first fresh one is marked, announced and handed to
\* submitSolution, which runs up to its POST.
HashFound(m, ds) ==
  /\ m.pc = "hash"
  /\ ResultTested(isRunning, isMining, currentChallengeId, m.chal)
  /\ LET h == FirstFresh(ds, submittedSolutions)
     IN IF h = 0
          THEN NextBatch(m, {})
          ELSE /\ submittedSolutions' = submittedSolutions \cup {h}
               /\ solvedAddressChallenges' =
                    solvedAddressChallenges \cup {<<m.addr, m.chal>>}
               /\ hashCount' = [hashCount EXCEPT ![h] = Bump(@)]
               /\ IF currentChallengeId = NoChal \/ ~walletManager
                    THEN /\ Returns(m, fees, userSolutionsCount,
                                    totalDevFeeSolutions, {"solution_submit"})
                         /\ UNCHANGED postCount
                    ELSE /\ miners' = (miners \ {m}) \cup
                              {[m EXCEPT
                                  !.pc = "submit", !.hash = h,
                                  !.subChal = SubmitChallenge(
                                                currentChallengeId, m.chal)]}
                         /\ postCount' =
                              [postCount EXCEPT
                                 ![<<m.addr, SubmitChallenge(
                                      currentChallengeId, m.chal)>>] = Bump(@)]
                         /\ emitted' = Publish({"solution_submit"})
                         /\ UNCHANGED <<isMining, runs, fees,
                                        addressesProcessedCurrentChallenge>>
               /\ UNCHANGED <<isRunning, currentChallengeId, currentChallenge,
                              pollTimer, wallet, counters, feeState,
                              journals, startVars, poll, env, stopSeen>>

\* ---------------------------------------------------------- submitSolution
\* The fire-and-forget fee check of line 739, up to its first await.
SpawnFeeCheck(fs, userCount, paid) ==
  IF FeeCheck(userCount, paid).pc = "none"
    THEN fs
    ELSE [fs EXCEPT ![Min(FreeFees)] = FeeCheck(userCount, paid)]

SubmitOk_Silent(m) ==
  /\ m.pc = "submit"
  /\ receipts' = LogReceipt(receipts,
       Receipt(m.addr, SubmitChallenge(currentChallengeId, m.chal), m.hash,
               m.kind = "fee"))
  /\ solutionsFound' = solutionsFound + 1
  /\ IF m.kind = "fee"
       THEN /\ totalDevFeeSolutions' = totalDevFeeSolutions + 1
            /\ UNCHANGED userSolutionsCount
            /\ Returns(m, fees, userSolutionsCount, totalDevFeeSolutions + 1,
                       {"solution"})
       ELSE /\ userSolutionsCount' = userSolutionsCount + 1
            /\ UNCHANGED totalDevFeeSolutions
            /\ \/ FeeCheck(userSolutionsCount + 1, totalDevFeeSolutions).pc
                    = "none"
               \/ FreeFees # {}
            /\ Returns(m,
                       SpawnFeeCheck(fees, userSolutionsCount + 1,
                                     totalDevFeeSolutions),
                       userSolutionsCount + 1, totalDevFeeSolutions,
                       {"solution"})
  /\ UNCHANGED <<isRunning, currentChallengeId, currentChallenge, pollTimer,
                 wallet, submittedSolutions, solvedAddressChallenges,
                 cacheAddress, clientId, priorCache, errorLog, startVars,
                 poll, env, ghost>>

\* The POST is answered 2xx.
SubmitOk(m) ==
  /\ m.pc = "submit"
  /\ receipts' = LogReceipt(receipts,
       Receipt(m.addr, SubmitChallenge(currentChallengeId, m.chal), m.hash,
               m.kind = "fee"))
  /\ solutionsFound' = solutionsFound + 1
  /\ IF m.kind = "fee"
       THEN /\ totalDevFeeSolutions' = totalDevFeeSolutions + 1
            /\ UNCHANGED userSolutionsCount
            /\ Returns(m, fees, userSolutionsCount, totalDevFeeSolutions + 1,
                       {"solution_result_ok", "solution"})
       ELSE /\ userSolutionsCount' = userSolutionsCount + 1
            /\ UNCHANGED totalDevFeeSolutions
            /\ \/ FeeCheck(userSolutionsCount + 1, totalDevFeeSolutions).pc
                    = "none"
               \/ FreeFees # {}
            /\ Returns(m,
                       SpawnFeeCheck(fees, userSolutionsCount + 1,
                                     totalDevFeeSolutions),
                       userSolutionsCount + 1, totalDevFeeSolutions,
                       {"solution_result_ok", "solution"})
  /\ UNCHANGED <<isRunning, currentChallengeId, currentChallenge, pollTimer,
                 wallet, submittedSolutions, solvedAddressChallenges,
                 cacheAddress, clientId, priorCache, errorLog, startVars,
                 poll, env, ghost>>

LogError_None(log, rec) == log

\* receiptsLogger.logError of line 798.
LogError(log, rec) == LogReceipt(log, rec)

SubmitFail_Continue(m) ==
  /\ m.pc = "submit"
  /\ errorLog' = LogError(errorLog,
       ErrorRecord(m.addr, currentChallengeId, m.hash))
  /\ miners' = (miners \ {m}) \cup
                 {[m EXCEPT !.pc = "hash", !.hash = 0, !.subChal = NoChal]}
  /\ emitted' = Publish({"solution_result_fail"})
  /\ UNCHANGED <<orch, pollTimer, wallet, dedup, counters, feeState,
                 receipts, startVars, poll, runs, fees, env, ghost>>

\* The POST is answered non-2xx, times out or fails: an error record is
\* written and nothing is retried.
SubmitFail(m) ==
  /\ m.pc = "submit"
  /\ errorLog' = LogError(errorLog,
       ErrorRecord(m.addr, currentChallengeId, m.hash))
  /\ Returns(m, fees, userSolutionsCount, totalDevFeeSolutions,
             {"solution_result_fail"})
  /\ UNCHANGED <<isRunning, currentChallengeId, currentChallenge, pollTimer,
                 wallet, submittedSolutions, solvedAddressChallenges,
                 counters, feeState, receipts, startVars, poll, env,
                 ghost>>

\* --------------------------------------------- checkAndMineDevFee, rounds
\* getDevFeeAddress resolves (cache, service, or stale cache as fallback) and
\* the fee miner runs up to its first await: it returns at once without a
\* current challenge or a ready ROM, joins the processed set, and returns
\* when the loop test fails.
FeeAddrOk(f) ==
  /\ fees[f].pc = "addr"
  /\ cacheAddress' = TRUE
  /\ IF currentChallengeId # NoChal /\ romReady
       THEN /\ addressesProcessedCurrentChallenge' =
                 addressesProcessedCurrentChallenge \cup {DevFeeAddr}
            /\ emitted' = Publish({"mining_start"})
       ELSE /\ UNCHANGED addressesProcessedCurrentChallenge
            /\ emitted' = Publish({})
  /\ IF /\ currentChallengeId # NoChal
        /\ romReady
        /\ LoopOn(isRunning, isMining, currentChallengeId, currentChallengeId)
       THEN /\ miners' = miners \cup
                 {Miner("fee", f, DevFeeAddr, currentChallengeId)}
            /\ fees' = [fees EXCEPT ![f].pc = "mine"]
            /\ UNCHANGED <<isMining, runs>>
       ELSE /\ fees' = AfterRound(f, fees, runs, isMining).fees
            /\ runs' = AfterRound(f, fees, runs, isMining).runs
            /\ isMining' = AfterRound(f, fees, runs, isMining).mining
            /\ UNCHANGED miners
  /\ UNCHANGED <<isRunning, currentChallengeId, currentChallenge, pollTimer,
                 wallet, submittedSolutions, solvedAddressChallenges,
                 counters, totalDevFeeSolutions, clientId, priorCache,
                 journals, startVars, poll, env, ghost>>

FeeAddrFail_Propagates(f) ==
  /\ fees[f].pc = "addr"
  /\ ~cacheAddress
  /\ fees' = AfterRound(f, fees, runs, isMining).fees
  /\ runs' = AfterRound(f, fees, runs, isMining).runs
  /\ isMining' = FALSE
  /\ emitted' = Publish({})
  /\ UNCHANGED <<isRunning, currentChallengeId, currentChallenge, pollTimer,
                 wallet, dedup, counters, feeState, journals,
                 startVars, poll, miners, env, ghost>>

\* The assignment service fails and nothing is cached: the round fails.
FeeAddrFail(f) ==
  /\ fees[f].pc = "addr"
  /\ ~cacheAddress
  /\ fees' = AfterRound(f, fees, runs, isMining).fees
  /\ runs' = AfterRound(f, fees, runs, isMining).runs
  /\ isMining' = AfterRound(f, fees, runs, isMining).mining
  /\ emitted' = Publish({})
  /\ UNCHANGED <<isRunning, currentChallengeId, currentChallenge, pollTimer,
                 wallet, dedup, counters, feeState, journals,
                 startVars, poll, miners, env, ghost>>

\* ------------------------------------------------------------ environment
\* The host attaches a listener for 'error' events (a dashboard connects to
\* the event stream) or detaches it (the dashboard disconnects).
Subscribe ==
  /\ ~errorListener
  /\ errorListener' = TRUE
  /\ emitted' = Publish({})
  /\ UNCHANGED <<orch, pollTimer, wallet, dedup, counters, feeState,
                 journals, startVars, poll, runs, fees, miners, walletFile,
                 observed, digests, lib, remote, romReady, callsLeft, ghost>>

Unsubscribe ==
  /\ errorListener
  /\ errorListener' = FALSE
  /\ emitted' = Publish({})
  /\ UNCHANGED <<orch, pollTimer, wallet, dedup, counters, feeState,
                 journals, startVars, poll, runs, fees, miners, walletFile,
                 observed, digests, lib, remote, romReady, callsLeft, ghost>>

\* The remote service moves on: before, challenge 1 .. NumChal, after.
RemoteAdvance ==
  /\ remote < After
  /\ remote' = remote + 1
  /\ emitted' = Publish({})
  /\ UNCHANGED <<orch, pollTimer, wallet, dedup, counters, feeState,
                 journals, startVars, poll, runs, fees, miners, host, lib,
                 romReady, callsLeft, ghost>>

\* The hash server finishes building the ROM.
RomInitDone ==
  /\ ~romReady
  /\ romReady' = TRUE
  /\ emitted' = Publish({})
  /\ UNCHANGED <<orch, pollTimer, wallet, dedup, counters, feeState,
                 journals, startVars, poll, runs, fees, miners, host, lib,
                 remote, callsLeft, ghost>>

\* ------------------------------------------------------------------- Next
\* The steps of the orchestrator and of the services it calls.  On a first
\* installation, with fewer than `ratio` user solutions, no fee is ever owed,
\* so no fee round runs.
Steps ==
  \/ StartCall
  \/ WalletLoadFail
  \/ WalletLoaded
  \/ \E ok \in BOOLEAN : RegisterReturn(ok)
  \/ StartFinish
  \/ Stop
  \/ \E c \in PollIds :
       \/ TimerFire(c)
       \/ FetchError(c)
       \/ FetchNoop(c)
       \/ FetchAfter(c)
       \/ FetchNew(c)
       \/ GraceDone(c)
       \/ InitRomFail(c)
       \/ RomWaitTimeout(c)
       \/ RomWaitReady(c)
  \/ \E m \in miners :
       \/ HashNone(m)
       \/ HashError(m)
       \/ \E ds \in QualifyingBatches : HashFound(m, ds)
       \/ SubmitOk(m)
       \/ SubmitFail(m)
  \/ RemoteAdvance
  \/ RomInitDone

Next ==
  \/ Steps
  \/ Subscribe
  \/ Unsubscribe

Spec == Init /\ [][Next]_vars

\* Every external call eventually returns and every timer eventually fires:
\* the wallet load and the registration requests of start(), the challenge
\* fetch, the sleeps and the ROM initialisation of each poll chain, and the
\* hash batch or the submission each miner of a scheduler run waits for.
StartStep ==
  \/ WalletLoadFail
  \/ WalletLoaded
  \/ \E ok \in BOOLEAN : RegisterReturn(ok)
  \/ StartFinish

TickStep(c) ==
  \/ TimerFire(c)
  \/ FetchError(c)
  \/ FetchNoop(c)
  \/ FetchAfter(c)
  \/ FetchNew(c)
  \/ GraceDone(c)
  \/ InitRomFail(c)
  \/ RomWaitTimeout(c)
  \/ RomWaitReady(c)

MinerStep(r) ==
  \E m \in MinersOf("run", r) :
    \/ HashNone(m)
    \/ HashError(m)
    \/ \E ds \in QualifyingBatches : HashFound(m, ds)
    \/ SubmitOk(m)
    \/ SubmitFail(m)

CallsReturn ==
  /\ WF_vars(StartStep)
  /\ \A c \in PollIds : WF_vars(TickStep(c))
  /\ \A r \in RunIds : WF_vars(MinerStep(r))

SpecLive == Init /\ [][Next]_vars /\ CallsReturn

\* A wallet of NumAddr addresses (two batches), the first of which solved
\* challenge 1 in an earlier process lifetime, and a host that only starts
\* and keeps its 'error' listener attached.
InitBatch ==
  InitWith([Fresh EXCEPT !.wallet = Addrs, !.calls = 1, !.listener = TRUE,
                         !.journal = [r \in {Receipt(1, 1, 1, FALSE)} |-> 1]])

SpecBatch == InitBatch /\ [][Steps]_vars

\* ------------------------------------------------- startup after earlier runs
\* The journals earlier process lifetimes have left behind: up to two recent
\* user receipts, alone or after a history of `ratio` user receipts of
\* earlier challenges (-1, -2, ...) for which the fee was paid or not.
UserRecs ==
  {Receipt(a, c, h, FALSE) : a \in 1..WalletSize, c \in Chals, h \in Hashes}

FeeRecs == {Receipt(DevFeeAddr, c, h, TRUE) : c \in Chals, h \in Hashes}

Journal(recs) == [r \in recs |-> 1]

HistoryOf(n) == {Receipt(1, 0 - k, 0 - k, FALSE) : k \in 1..n}

History == HistoryOf(ratio)

PriorJournals ==
  {Journal(recent \cup old \cup fee) :
     recent \in {x \in SUBSET UserRecs : Cardinality(x) <= 2},
     old \in {{}, History},
     fee \in {{}} \cup {{f} : f \in FeeRecs}}

\* The fee cache file an earlier process lifetime that left journal j has
\* left behind: none when it was removed, else the one its last saveCache()
\* wrote, with its client id, the number of fee solutions it recorded and
\* the recipient address it had fetched, if any.
ClientIds == 1..NumClient

PriorCaches(j) ==
  {NoCacheFile} \cup
  {CacheFile(a, JournalSize(j, DevFeeReceipts(j)), id) :
     a \in BOOLEAN, id \in ClientIds}

\* A fee receipt is written only when a fee was owed.
InitLoad ==
  \E j \in PriorJournals :
    /\ DevFeesNeeded(JournalSize(j, UserReceipts(j)), 0)
         >= JournalSize(j, DevFeeReceipts(j))
    /\ \E file \in PriorCaches(j), id \in ClientIds :
         InitWith([Fresh EXCEPT !.calls = 1, !.journal = j,
                                !.cache = file, !.newId = id,
                                !.observed = {"error", "status_active"}])

NextLoad ==
  \/ StartCall
  \/ WalletLoadFail
  \/ WalletLoaded
  \/ \E ok \in BOOLEAN : RegisterReturn(ok)
  \/ StartFinish

SpecLoad == InitLoad /\ [][NextLoad]_vars

\* ------------------------------------------------------------ nonce calls
\* The integers handed to numberToNonce: those with at most MaxOnes one
\* bits, and 2^k - 1 for every k up to NonceBits.  The worker ids and the
\* random bytes handed to generateNonce, and the worker ids handed to
\* getWorkerNonceRange.
NonceInputs ==
  {{f[i] : i \in 1..MaxOnes} : f \in [1..MaxOnes -> 0..(NonceBits - 1)]}
  \cup {0..(k - 1) : k \in 0..NonceBits}

WorkerIds == {-1, 0, 1, 15, 255, 256, 1000}
RandomBytes == {0, 10, 255}
RandomDraws == [1..7 -> RandomBytes]

RangeWorkers == 0..10

InitNonce ==
  \/ \E w \in RangeWorkers :
       InitWith([Fresh EXCEPT !.nonce = [fn |-> "getWorkerNonceRange",
                                         workerId |-> w]])
  \/ \E n \in NonceInputs :
       InitWith([Fresh EXCEPT !.nonce = [fn |-> "numberToNonce", num |-> n]])
  \/ \E w \in WorkerIds :
       InitWith([Fresh EXCEPT !.nonce = [fn |-> "generateNonce",
                                         workerId |-> w]])

NumberToNonce ==
  /\ nonceArg.fn = "numberToNonce"
  /\ nonceOut = <<>>
  /\ nonceOut' = NumberToNonceOf(ToNumber(nonceArg.num))
  /\ UNCHANGED <<orch, pollTimer, wallet, dedup, counters, feeState,
                 journals, startVars, poll, runs, fees, miners, host,
                 nonceArg, feeCall, feeOut, remote, romReady, callsLeft,
                 ghost, emitted>>

GenerateNonce ==
  /\ nonceArg.fn = "generateNonce"
  /\ nonceOut = <<>>
  /\ \E random \in RandomDraws :
       nonceOut' = GenerateNonceOf(nonceArg.workerId, random)
  /\ UNCHANGED <<orch, pollTimer, wallet, dedup, counters, feeState,
                 journals, startVars, poll, runs, fees, miners, host,
                 nonceArg, feeCall, feeOut, remote, romReady, callsLeft,
                 ghost, emitted>>

GetWorkerNonceRange ==
  /\ nonceArg.fn = "getWorkerNonceRange"
  /\ nonceOut = <<>>
  /\ nonceOut' = GetWorkerNonceRangeOf(nonceArg.workerId)
  /\ UNCHANGED <<orch, pollTimer, wallet, dedup, counters, feeState,
                 journals, startVars, poll, runs, fees, miners, host,
                 nonceArg, feeCall, feeOut, remote, romReady, callsLeft,
                 ghost, emitted>>

NextNonce ==
  \/ NumberToNonce
  \/ GenerateNonce
  \/ GetWorkerNonceRange

SpecNonce == InitNonce /\ [][NextNonce]_vars

\* ------------------------------------------------- getDevFeeAddress calls
\* The recipients the assignment service can name, well-formed or not, and
\* its answers; the caches a manager can start with; and the time that
\* passes before a call.
ServiceAddresses ==
  {Tnight1 \o <<"q">>, Addr1 \o <<"v">>, <<"a", "d", "d", "r">>, <<>>}

Responses ==
  {[ok |-> FALSE, devAddress |-> <<>>, devAddressIndex |-> 0]} \cup
  {[ok |-> TRUE, devAddress |-> a, devAddressIndex |-> 1] :
     a \in ServiceAddresses}

Delays == {0, 1, ONE_HOUR - 1, ONE_HOUR}

StartCaches ==
  {[currentAddress |-> cur, lastFetchError |-> FALSE] :
     cur \in {NoCurrent,
              [address |-> Tnight1 \o <<"p">>, addressIndex |-> 0,
               fetchedAt |-> 0, usedCount |-> 0]}}

InitDevFee ==
  \E c \in StartCaches :
    InitWith([Fresh EXCEPT !.fee = [fn |-> "getDevFeeAddress", cache |-> c,
                                    now |-> 0, left |-> MaxFetch,
                                    used |-> 0]])

\* One call of getDevFeeAddress(), after `dt` ms, answered by `response` if
\* it calls the service.
GetDevFeeAddress ==
  /\ feeCall.fn = "getDevFeeAddress"
  /\ feeCall.left > 0
  /\ \E dt \in Delays, response \in Responses :
       LET out == GetDevFeeAddressOf(feeCall.cache, feeCall.now + dt, response)
       IN /\ feeOut' = [result |-> out.result, called |-> out.called,
                        response |-> response]
          /\ feeCall' = [feeCall EXCEPT !.cache = out.cache,
                                        !.now = @ + dt, !.left = @ - 1]
  /\ UNCHANGED <<orch, pollTimer, wallet, dedup, counters, feeState,
                 journals, startVars, poll, runs, fees, miners, host,
                 nonceArg, nonceOut, remote, romReady, callsLeft, ghost,
                 emitted>>

\* recordDevFeeSolution(), lines 198-206, as far as the recipient goes.
RecordDevFeeSolution ==
  /\ feeCall.fn = "getDevFeeAddress"
  /\ feeCall.used < MaxUsed
  /\ feeCall' =
       [feeCall EXCEPT
          !.used = @ + 1,
          !.cache.currentAddress =
            IF @ # NoCurrent THEN [@ EXCEPT !.usedCount = @ + 1] ELSE @]
  /\ UNCHANGED <<orch, pollTimer, wallet, dedup, counters, feeState,
                 journals, startVars, poll, runs, fees, miners, host,
                 nonceArg, nonceOut, feeOut, remote, romReady, callsLeft,
                 ghost, emitted>>

NextDevFee ==
  \/ GetDevFeeAddress
  \/ RecordDevFeeSolution

SpecDevFee == InitDevFee /\ [][NextDevFee]_vars

\* ------------------------------------------------------ when a fee is due
\* A one-address wallet with a history one short of `ratio` user receipts:
\* its next user solution makes a fee solution due.  The results of the
\* submissions are recorded in `emitted`.
InitFee ==
  InitWith([Fresh EXCEPT !.calls = 1, !.listener = TRUE,
                         !.journal = Journal(HistoryOf(ratio - 1)),
                         !.observed = {"solution_result_ok",
                                       "solution_result_fail"}])

NextFee ==
  \/ Steps
  \/ \E f \in FeeIds :
       \/ FeeAddrOk(f)
       \/ FeeAddrFail(f)

SpecFee == InitFee /\ [][NextFee]_vars

\* ---------------------------------------------- catching up on owed fees
\* A one-address wallet started while the last challenge is active, with a
\* history one short of `ratio` or of twice `ratio` user receipts, and a hash
\* service with one more qualifying digest, so that the user miner and two
\* fee miners can each find their own.
InitCatchUp ==
  \E n \in {ratio - 1, 2 * ratio - 1} :
    InitWith([Fresh EXCEPT !.calls = 1, !.listener = TRUE,
                           !.remote = NumChal,
                           !.digests = 1..(NumHash + 1),
                           !.journal = Journal(HistoryOf(n)),
                           !.observed = {"solution_submit",
                                         "solution_result_ok",
                                         "solution_result_fail"}])

\* With one challenge left, no tick finds mining in progress for an earlier
\* one, so no grace period is ever waited for.
NextCatchUp ==
  \/ NextLoad
  \/ Stop
  \/ \E c \in PollIds :
       \/ TimerFire(c)
       \/ FetchError(c)
       \/ FetchNoop(c)
       \/ FetchAfter(c)
       \/ FetchNew(c)
       \/ InitRomFail(c)
       \/ RomWaitTimeout(c)
       \/ RomWaitReady(c)
  \/ \E m \in miners :
       \/ HashNone(m)
       \/ HashError(m)
       \/ \E ds \in QualifyingBatches : HashFound(m, ds)
       \/ SubmitOk(m)
       \/ SubmitFail(m)
  \/ \E f \in FeeIds :
       \/ FeeAddrOk(f)
       \/ FeeAddrFail(f)
  \/ RemoteAdvance
  \/ RomInitDone

SpecCatchUp == InitCatchUp /\ [][NextCatchUp]_vars

\* ------------------------------------------------ stop() and start() again
\* A first installation started while the last challenge is active, with a
\* host that can start, stop and start again.  No fee is owed and no tick
\* finds mining in progress for an earlier challenge.
InitRestart ==
  InitWith([Fresh EXCEPT !.calls = MaxCalls + 1, !.listener = TRUE,
                         !.remote = NumChal])

NextRestart ==
  \/ NextLoad
  \/ Stop
  \/ \E c \in PollIds :
       \/ TimerFire(c)
       \/ FetchError(c)
       \/ FetchNoop(c)
       \/ FetchAfter(c)
       \/ FetchNew(c)
       \/ InitRomFail(c)
       \/ RomWaitTimeout(c)
       \/ RomWaitReady(c)
  \/ \E m \in miners :
       \/ HashNone(m)
       \/ HashError(m)
       \/ \E ds \in QualifyingBatches : HashFound(m, ds)
       \/ SubmitOk(m)
       \/ SubmitFail(m)
  \/ RemoteAdvance
  \/ RomInitDone

SpecRestart == InitRestart /\ [][NextRestart]_vars

\* ------------------------------------------------ a failing hash service
\* A wallet of one batch of sibling addresses, started while the last
\* challenge is active; the errors the miners log and the registrations
\* that fail are recorded.
InitHashError ==
  InitWith([Fresh EXCEPT !.wallet = 1..workerThreads, !.listener = TRUE,
                         !.remote = NumChal,
                         !.observed = {"log_hash_error",
                                       "registration_failed"}])

SpecHashError == InitHashError /\ [][NextRestart]_vars

\* -------------------------------------- stop() and start() between batches
\* A wallet of NumAddr addresses (two batches) started while the last
\* challenge is active, with a host that can start, stop and start again.
\* No fee is owed.
InitStopBatch ==
  InitWith([Fresh EXCEPT !.wallet = Addrs, !.calls = MaxCalls + 1,
                         !.listener = TRUE, !.remote = NumChal])

\* The wallet loads, every registration succeeds, and the challenge, ROM,
\* hash and submission services answer without failure.
NextStopBatch ==
  \/ StartCall
  \/ WalletLoaded
  \/ RegisterReturn(TRUE)
  \/ StartFinish
  \/ Stop
  \/ \E c \in PollIds :
       \/ TimerFire(c)
       \/ FetchNoop(c)
       \/ FetchNew(c)
       \/ RomWaitReady(c)
  \/ \E m \in miners :
       \/ HashNone(m)
       \/ \E ds \in QualifyingBatches : HashFound(m, ds)
       \/ SubmitOk(m)
  \/ RomInitDone

SpecStopBatch == InitStopBatch /\ [][NextStopBatch]_vars

\* ------------------------------------------------------------- properties
\* C1: for every (identity, challenge id) pair at most one submission POST
\* is ever issued.
C1_OnePostPerPair == \A p \in Idents \X Chals : postCount[p] <= 1

\* C2: a digest is handed to the submitter at most once in a process
\* lifetime, also when the earlier submission was under a previous challenge.
C2_DigestSubmittedOnce == \A h \in Hashes : hashCount[h] <= 1

\* C3: the Submitted-Hash Set only grows: no step removes an entry.
C3_SubmittedOnlyGrows == [][submittedSolutions \subseteq submittedSolutions']_vars

\* The startup load has run.
Loaded == startPc = "reg" \/ isRunning

\* C4 as stated: after the startup load every receipt of the journal, fee or
\* not, has its hash in the Submitted-Hash Set and its pair in Solved-Pairs.
C4_EveryReceiptLoaded ==
  Loaded =>
    \A r \in DOMAIN receipts :
      /\ r.hash \in submittedSolutions
      /\ <<r.address, r.challenge_id>> \in solvedAddressChallenges

\* C4 amended: after the startup load the Submitted-Hash Set holds exactly the
\* hashes of the non-fee receipts and Solved-Pairs exactly their pairs; fee
\* receipts are left out of both.
C4_UserReceiptsLoaded ==
  Loaded =>
    /\ submittedSolutions = {r.hash : r \in UserReceipts(receipts)}
    /\ solvedAddressChallenges =
         {<<r.address, r.challenge_id>> : r \in UserReceipts(receipts)}

C4_Witness ==
  /\ Loaded
  /\ UserReceipts(receipts) # {}
  /\ \E r \in DOMAIN receipts : r.isDevFee /\ r.hash \notin submittedSolutions

\* C5: while a submission POST is in flight, its digest is in the
\* Submitted-Hash Set and its (identity, challenge id) pair, the one of the
\* URL, is in Solved-Pairs.
C5_MarkedWhileInFlight ==
  \A m \in miners :
    m.pc = "submit" =>
      /\ m.hash \in submittedSolutions
      /\ <<m.addr, m.subChal>> \in solvedAddressChallenges

\* C6: no miner issues a submission once mining has been told to stop for a
\* new challenge: whenever a POST is issued, the mining flag is set and the
\* miner's challenge is the current one.
C6_NoSubmitAfterCancel ==
  [][\A m \in miners' \ miners :
       m.pc = "submit" => (isMining /\ currentChallengeId = m.chal)]_vars

\* C7: the current challenge id changes, and a scheduler run starts, only in
\* a step of a transition to that id taken while the ROM is ready; a tick
\* that ends its readiness wait without a ready ROM leaves the id, the runs
\* and the miners as they were; and a tick whose fetch shows an id other than
\* the current one (and does not fail) starts the transition to it, also
\* after a failed one.
C7_ReadyBeforeRecord ==
  [][/\ currentChallengeId' # currentChallengeId =>
          /\ romReady
          /\ \E c \in PollIds :
               poll[c].pc = "rom" /\ poll[c].chal = currentChallengeId'
     /\ \A r \in RunIds :
          (runs[r].pc = "none" /\ runs'[r].pc # "none") =>
            (romReady /\ runs'[r].chal = currentChallengeId')
     /\ \A c \in PollIds :
          (poll[c].pc = "rom" /\ ~romReady /\ poll'[c] # poll[c]) =>
            /\ currentChallengeId' = currentChallengeId
            /\ runs' = runs /\ miners' = miners /\ isMining' = isMining
            /\ poll'[c].pc \notin {"grace", "rom"}
     /\ \A c \in PollIds :
          (/\ poll[c].pc = "fetch" /\ poll'[c] # poll[c]
           /\ remote \in Chals /\ remote # currentChallengeId
           /\ "error" \notin emitted' /\ poll'[c].pc # "none") =>
            (poll'[c].pc \in {"grace", "rom"} /\ poll'[c].chal = remote)
    ]_vars

\* A transition from challenge 1 to challenge 2 has failed on the ROM (the
\* error was published and the next tick scheduled): the id is still 1.
C7_Witness ==
  /\ currentChallengeId = 1 /\ remote = 2 /\ ~romReady
  /\ "error" \in emitted
  /\ \E c \in PollIds : poll[c].pc = "timer"

\* C8: while running, a tick that fails (its fetch, when the remote shows a
\* new challenge, ends without starting the transition; its readiness wait
\* ends without a ready ROM) publishes an error event; a tick that publishes
\* an error event schedules the next tick; and no tick ends its poll chain.
C8_ErrorThenNextTick ==
  [][\A c \in PollIds :
       (isRunning /\ poll'[c] # poll[c]) =>
         /\ (\/ poll[c].pc = "rom" /\ ~romReady
             \/ /\ poll[c].pc = "fetch" /\ remote \in Chals
                /\ remote # currentChallengeId
                /\ poll'[c].pc \notin {"grace", "rom"})
              => "error" \in emitted'
         /\ "error" \in emitted' => (poll'[c].pc = "timer" /\ pollTimer' = c)
         /\ poll[c].pc \in {"fetch", "grace", "rom"} => poll'[c].pc # "none"
    ]_vars

\* C9: once a tick has seen the remote state AFTER (the host having called
\* start() once and nothing else), the orchestrator is stopped and no poll
\* timer is pending.
C9_NoTimerAfterEnd ==
  (/\ remote = After /\ ~isRunning /\ startPc = "idle"
   /\ callsLeft = MaxCalls - 1 /\ walletManager /\ addresses # {}) =>
    \A c \in PollIds : poll[c].pc # "timer"

\* C10 as stated: a scheduler miner starts only when no scheduler miner
\* started earlier, by its own run or by another, is still in flight.
C10_NeverOverlap ==
  [][\A m \in miners' \ miners :
       (m.kind = "run" /\ m.pc = "hash") =>
         {x \in miners' \cap miners : x.kind = "run"} = {}]_vars

\* C10 amended: within one scheduler run a miner of the next batch starts only
\* when every miner of the run's earlier batches has returned; miners of the
\* run for the previous challenge may still be in flight.
C10_NoOverlapInRun ==
  [][\A m \in miners' \ miners :
       (m.kind = "run" /\ m.pc = "hash") =>
         {x \in miners' \cap miners :
            x.kind = "run" /\ x.owner = m.owner} = {}]_vars

\* The second batch of the run over three registered addresses (the run for
\* challenge 2) is in flight, and so is a miner of the run for challenge 1.
C10_Witness ==
  /\ registered = Addrs
  /\ \E m \in miners :
       m.kind = "run" /\ m.addr = NumAddr /\ m.chal = currentChallengeId
  /\ \E m \in miners : m.kind = "run" /\ m.chal # currentChallengeId

\* C11 as stated: at every moment at most workerThreads miner loops (user
\* miners and fee miners together) are waiting for the hash service.
C11_AtMostWorkers ==
  Cardinality({m \in miners : m.pc = "hash"}) <= workerThreads

\* The scheduler miners that run r starts in a step.
Started(r, before, after) ==
  {m \in after \ before : m.kind = "run" /\ m.owner = r /\ m.pc = "hash"}

Answered(before, after) == {m \in before : m.pc = "submit" /\ m \notin after}

\* The submission POSTs issued in a step.
Posted(before, after) == {m \in after \ before : m.pc = "submit"}

\* C13: a step that hands a digest to the submitter issues exactly one POST;
\* a step in which a POST is answered issues none, and publishes exactly one
\* of the two solution_result events; when it is the failure event, one error
\* record (address, challenge id, digest of the submission) is appended and
\* the solution counters and the receipt journal are unchanged; and an error
\* record is appended only then.
C13_OnePostNoRetry ==
  [][/\ (startPc # "load" /\ submittedSolutions' \ submittedSolutions # {}) =>
          /\ Cardinality(Posted(miners, miners')) = 1
          /\ \E q \in Idents \X Chals :
               postCount' = [postCount EXCEPT ![q] = Bump(@)]
          /\ \A m \in Posted(miners, miners') :
               submittedSolutions' = submittedSolutions \cup {m.hash}
     /\ \A m \in Answered(miners, miners') :
          /\ Posted(miners, miners') = {}
          /\ postCount' = postCount
          /\ ("solution_result_fail" \in emitted')
               # ("solution_result_ok" \in emitted')
          /\ "solution_result_fail" \in emitted' =>
               /\ errorLog' = LogReceipt(errorLog,
                    ErrorRecord(m.addr, currentChallengeId, m.hash))
               /\ receipts' = receipts
               /\ solutionsFound' = solutionsFound
               /\ userSolutionsCount' = userSolutionsCount
               /\ totalDevFeeSolutions' = totalDevFeeSolutions
     /\ errorLog' # errorLog => "solution_result_fail" \in emitted'
     /\ "solution_result_fail" \in emitted' => Answered(miners, miners') # {}
    ]_vars

\* A submission has just been rejected, for the second time in this run.
C13_Witness ==
  /\ "solution_result_fail" \in emitted
  /\ JournalSize(errorLog, DOMAIN errorLog) = 2

\* C14: a step that publishes solution_result with success=true answers one
\* POST, increments the global solutions counter by one and exactly one of
\* the user and fee counters by one (the fee counter for a fee miner, the
\* user counter otherwise) and appends one receipt with the miner's
\* address, digest and fee flag; and receipts and counters change in no
\* other step after the startup load.
C14_AcceptedCounted ==
  [][/\ "solution_result_ok" \in emitted' =>
          \E m \in Answered(miners, miners') :
            /\ solutionsFound' = solutionsFound + 1
            /\ userSolutionsCount' =
                 userSolutionsCount + (IF m.kind = "fee" THEN 0 ELSE 1)
            /\ totalDevFeeSolutions' =
                 totalDevFeeSolutions + (IF m.kind = "fee" THEN 1 ELSE 0)
            /\ \E c \in Chals :
                 receipts' = LogReceipt(receipts,
                               Receipt(m.addr, c, m.hash, m.kind = "fee"))
            /\ JournalSize(receipts', DOMAIN receipts')
                 = JournalSize(receipts, DOMAIN receipts) + 1
            /\ errorLog' = errorLog
     /\ (\/ receipts' # receipts
         \/ totalDevFeeSolutions' # totalDevFeeSolutions
         \/ (userSolutionsCount' # userSolutionsCount /\ startPc # "load")
         \/ solutionsFound' > solutionsFound)
          => "solution_result_ok" \in emitted'
    ]_vars

\* A fee submission has just been accepted, after an accepted user submission.
C14_Witness ==
  /\ "solution_result_ok" \in emitted
  /\ totalDevFeeSolutions > 0
  /\ userSolutionsCount = ratio
  /\ \E r \in DOMAIN receipts : r.isDevFee

C16_OneFeeSolution ==
  userSolutionsCount = ratio =>
    /\ totalDevFeeSolutions <= 1
    /\ \A c \in Chals : postCount[<<DevFeeAddr, c>>] <= 1

\* A miner of run r for challenge c is in flight with the running flag or the
\* mining flag cleared, or with another challenge current.
CancelledInFlight(r, c) ==
  \E m \in miners :
    /\ m.kind = "run" /\ m.owner = r /\ m.chal = c
    /\ (~isRunning \/ ~isMining \/ currentChallengeId # c)

\* C17 as stated: once a miner loop is in flight cancelled, that run has no
\* miner for that challenge in flight at some later moment.
C17_CancelledTerminate ==
  \A r \in RunIds, c \in Chals :
    CancelledInFlight(r, c)
      ~> ~(\E m \in miners : m.kind = "run" /\ m.owner = r /\ m.chal = c)

\* C17 amended: no miner loop stays in flight cancelled for ever (it
\* terminates, unless a call of start() after stop() sets the running flag
\* again before the loop reads it); no scheduler run stays in its batch loop
\* for ever with the flags cleared or another challenge current; and the
\* mining flag does not stay set for ever while the orchestrator is stopped.
C17_NoneStaysCancelled ==
  /\ \A r \in RunIds, c \in Chals : []<>(~CancelledInFlight(r, c))
  /\ \A r \in RunIds :
       []<>(~(/\ runs[r].pc = "batch"
              /\ (~isRunning \/ ~isMining
                    \/ currentChallengeId # runs[r].chal)))
  /\ []<>(~(isMining /\ ~isRunning))

\* stop() has been called while a tick was waiting out the grace period of a
\* challenge change and a miner of the old challenge is still in flight.
C17_Witness ==
  /\ ~isRunning /\ callsLeft = 0 /\ ~isMining
  /\ \E c \in PollIds : poll[c].pc = "grace"
  /\ \E m \in miners : m.kind = "run" /\ m.chal = currentChallengeId

\* C18: while the only call of start() awaits the wallet, and after that
\* call was rejected because the wallet could not be loaded, the running
\* flag is false, no poll chain has made a tick or holds a timer, and no
\* status event with active = true was published.
C18_FailedStartStaysStopped ==
  startPc \in {"load", "failed"} =>
    /\ ~isRunning /\ ~isMining
    /\ \A c \in PollIds : poll[c] = NoPoll
    /\ pollTimer = 0
    /\ "status_active" \notin emitted

\* start() was called with a wallet that could not be loaded and has
\* rejected.
C18_Witness == startPc = "failed" /\ walletManager /\ callsLeft = 0

IsHex(str) == \A p \in 1..Len(str) : \E d \in 1..16 : HexChars[d] = str[p]

\* C20: numberToNonce(n) is exactly 16 lowercase hexadecimal characters
\* that read as hexadecimal give n, for every integer 0 <= n < 2^64;
\* generateNonce(workerId) is exactly 16 hexadecimal characters or an error.
C20_NonceRoundTrip ==
  nonceOut # <<>> =>
    /\ nonceArg.fn = "numberToNonce" =>
         /\ Len(nonceOut) = NonceLen
         /\ IsHex(nonceOut)
         /\ ReadHex(nonceOut) = nonceArg.num
    /\ nonceArg.fn = "generateNonce" =>
         \/ nonceOut = Thrown
         \/ Len(nonceOut) = NonceLen /\ IsHex(nonceOut)

\* C19: a DevFeeManager constructed while a cache file of a previous instance
\* exists has the persisted total of fee solutions, the persisted recipient
\* address and the persisted client id, so that once the receipts are loaded
\* no more fee solutions are owed than the persisted total leaves owed.
C19_FeeStateSurvives ==
  priorCache.exists =>
    /\ totalDevFeeSolutions = priorCache.totalDevFeeSolutions
    /\ cacheAddress = priorCache.currentAddress
    /\ clientId = priorCache.clientId
    /\ startPc = "reg" =>
         DevFeesNeeded(userSolutionsCount, totalDevFeeSolutions)
           = DevFeesNeeded(userSolutionsCount,
                           priorCache.totalDevFeeSolutions)

\* C21: a step that clears the mining flag while the orchestrator is running
\* is the challenge-change step of a tick, or the return of scheduler runs
\* that were all started for the challenge that is current: the return of a
\* run for an earlier challenge does not clear the flag a newer run has set.
C21_OldRunLeavesFlag ==
  [][(isRunning /\ isMining /\ ~isMining') =>
       \/ \E c \in PollIds : poll[c].pc = "fetch" /\ poll'[c].pc = "grace"
       \/ \A r \in RunIds :
            (runs[r].pc # "none" /\ runs'[r].pc = "none") =>
              runs[r].chal = currentChallengeId]_vars

\* The records a step appends to journal j.
Appended(j, k) ==
  {r \in DOMAIN k : r \notin DOMAIN j \/ k[r] > j[r]}

\* C22: the challenge id of the URL of a submission is the id its miner
\* captured (the one marked in Solved-Pairs, whose fields built the
\* preimage), and so is the id of the receipt or error record written when
\* the POST is answered.
C22_OneChallengePerSubmission ==
  [][/\ \A m \in miners' \ miners :
          m.pc = "submit" => m.subChal = m.chal
     /\ \A rec \in Appended(receipts, receipts')
                     \cup Appended(errorLog, errorLog') :
          \E m \in miners \ miners' :
            /\ m.pc = "submit" /\ m.addr = rec.address /\ m.hash = rec.hash
            /\ rec.challenge_id = m.chal
            /\ rec.challenge_id = m.subChal]_vars

\* The poll chains that exist: a tick in flight or a poll timer pending.
PollChains == {c \in PollIds : poll[c].pc # "none"}

\* C23: at any time at most one poll chain exists.
C23_OnePollLoop == Cardinality(PollChains) <= 1

\* C24: the number of accepted fee solutions never exceeds
\* floor(userSolutionsCount / ratio) once the receipts are loaded.
C24_NeverOverpaid ==
  Loaded => totalDevFeeSolutions <= userSolutionsCount \div ratio

\* C25, on finite runs: the host has called start(), stop() and start()
\* again; when a tick of the restarted orchestrator has fetched (without
\* error) the challenge that is still the current one and returns, every
\* registered identity that was being mined for it and has not solved it
\* has a miner in flight for it or waits in a running scheduler run for it.
\* (No later step starts a miner for a challenge that stays current, so
\* mining that has not resumed by then never does.)
C25_ResumesAfterRestart ==
  [][\A c \in PollIds :
       (/\ callsLeft = 0 /\ isRunning
        /\ poll[c].pc = "fetch" /\ poll'[c].pc = "timer"
        /\ "error" \notin emitted'
        /\ remote \in Chals /\ remote = currentChallengeId) =>
         \A a \in AddressesToMine(currentChallengeId)
                  \cap addressesProcessedCurrentChallenge :
           \/ \E m \in miners' :
                m.kind = "run" /\ m.addr = a /\ m.chal = currentChallengeId
           \/ \E r \in RunIds :
                /\ runs'[r].pc = "batch"
                /\ runs'[r].chal = currentChallengeId
                /\ a \in runs'[r].rest]_vars

\* C26: in the step that completes a transition to a new challenge id, the
\* processed set is still empty from the clear (no miner that started while
\* the superseded challenge was current has joined it since), and afterwards
\* it holds only identities with a miner started against the new challenge.
C26_ProcessedOnlyNew ==
  [][\A c \in PollIds :
       (/\ poll[c].pc = "rom"
        /\ currentChallengeId # poll[c].chal
        /\ currentChallengeId' = poll[c].chal) =>
         /\ addressesProcessedCurrentChallenge = {}
         /\ addressesProcessedCurrentChallenge' \subseteq
              {m.addr : m \in {x \in miners' : x.chal = poll[c].chal}}]_vars

\* Miners x and m belong to the same invocation of mineForAddress.
SameInvocation(x, m) ==
  x.kind = m.kind /\ x.owner = m.owner /\ x.addr = m.addr /\ x.chal = m.chal

\* C27: a miner hands a digest to the submitter only from its hash wait,
\* only a digest that is not in the Submitted-Hash Set, and with exactly one
\* POST; when the POST is answered, accepted or not, the invocation is over:
\* it has no hash batch and no POST in flight and no call was issued in the
\* step.
C27_OneSubmissionThenReturn ==
  [][/\ \A m \in miners' \ miners :
          m.pc = "submit" =>
            /\ m.hash \notin submittedSolutions
            /\ \E x \in miners \ miners' :
                 x.pc = "hash" /\ SameInvocation(x, m)
            /\ postCount' =
                 [postCount EXCEPT ![<<m.addr, m.subChal>>] = Bump(@)]
            /\ hashCount' = [hashCount EXCEPT ![m.hash] = Bump(@)]
     /\ \A m \in miners \ miners' :
          m.pc = "submit" =>
            /\ \A x \in miners' : ~SameInvocation(x, m)
            /\ postCount' = postCount
            /\ hashCount' = hashCount]_vars

\* A POST is in flight for a digest found while another digest was already
\* in the Submitted-Hash Set, and an earlier submission was rejected.
C27_Witness ==
  /\ \E m \in miners :
       m.pc = "submit" /\ submittedSolutions \ {m.hash} # {}
  /\ DOMAIN errorLog # {}

\* C28: no step removes a pair from Solved-Pairs; the pair of a submission
\* is still marked when the POST has been answered, accepted or not; and a
\* scheduler run starts a miner only for a pair that is not marked.
C28_SolvedStaysSolved ==
  [][/\ solvedAddressChallenges \subseteq solvedAddressChallenges'
     /\ \A m \in miners \ miners' :
          m.pc = "submit" =>
            <<m.addr, m.chal>> \in solvedAddressChallenges'
     /\ \A m \in miners' \ miners :
          (m.kind = "run" /\ m.pc = "hash") =>
            <<m.addr, m.chal>> \notin solvedAddressChallenges]_vars

\* The submission of an identity for the current challenge was rejected, no
\* miner is in flight, and a tick is about to complete a transition to that
\* same challenge and call the scheduler for it.
C28_Witness ==
  \E rec \in DOMAIN errorLog, c \in PollIds :
    /\ rec.challenge_id = currentChallengeId
    /\ <<rec.address, currentChallengeId>> \in solvedAddressChallenges
    /\ poll[c].pc = "rom" /\ poll[c].chal = currentChallengeId
    /\ romReady /\ isRunning /\ ~isMining /\ miners = {}

\* Every miner awaiting a hash batch passes its loop test.
AllLoopsOn ==
  \A x \in miners :
    x.pc = "hash" =>
      LoopOn(isRunning, isMining, currentChallengeId, x.chal)

\* C29: in a step in which a hash batch fails, the only miner that can
\* leave is one awaiting a hash batch whose loop test fails; while the
\* running flag, the mining flag and the challenge id let every miner go on,
\* the failing miner and its siblings all stay in flight and the scheduler
\* runs, the fee checks and the flags are as before.
C29_HashErrorContinues ==
  [][("log_hash_error" \in emitted') =>
       /\ \A x \in miners \ miners' :
            /\ x.pc = "hash"
            /\ ~LoopOn(isRunning, isMining, currentChallengeId, x.chal)
       /\ AllLoopsOn =>
            UNCHANGED <<miners, runs, fees, isMining, isRunning,
                        currentChallengeId>>]_vars

\* A hash batch has just failed while two sibling miners of one batch are
\* awaiting hash batches and nothing is cancelled.
C29_Witness ==
  /\ "log_hash_error" \in emitted
  /\ AllLoopsOn
  /\ \E r \in RunIds :
       Cardinality({m \in MinersOf("run", r) : m.pc = "hash"}) = workerThreads

\* A round of fee check f fails in this step: the recipient request fails
\* with nothing cached, or the POST of its fee miner is not accepted.
RoundFails(f) ==
  \/ fees[f].pc = "addr" /\ fees'[f] # fees[f] /\ ~cacheAddress'
  \/ \E m \in miners \ miners' :
       /\ m.kind = "fee" /\ m.owner = f /\ m.pc = "submit"
       /\ Appended(errorLog, errorLog') # {}

\* C30: when a round of a fee check fails, nothing is counted as paid, and
\* the check goes on to its next round if one is left and returns (the
\* end-of-run check ending its scheduler run) if none is.
C30_FailedRoundGoesOn ==
  [][\A f \in FeeIds :
       RoundFails(f) =>
         /\ totalDevFeeSolutions' = totalDevFeeSolutions
         /\ IF fees[f].left > 1
              THEN /\ fees'[f] = [pc |-> "addr", left |-> fees[f].left - 1]
                   /\ f \in RunIds => runs'[f] = runs[f]
              ELSE /\ fees'[f] = NoFee
                   /\ f \in RunIds => runs'[f] = NoRun]_vars

\* The first round of a two-round catch-up ended with a rejected fee
\* submission, and the second round is awaiting the recipient address.
C30_Witness ==
  /\ \E f \in FeeIds : fees[f] = [pc |-> "addr", left |-> 1]
  /\ \E rec \in DOMAIN errorLog : rec.address = DevFeeAddr
  /\ userSolutionsCount = 2 * ratio
  /\ totalDevFeeSolutions = 0

\* C31: the step that answers a user miner's POST with success ends that
\* miner and leaves the fee check it triggers, if one is owed, awaiting the
\* recipient of its first round; and a failing round of such a check changes
\* no counter of user solutions, no receipt, publishes no success event, and
\* changes no scheduler run, no mining flag and no miner but its own.
C31_FeeCheckDetached ==
  [][/\ \A m \in Answered(miners, miners') :
          (m.kind = "run" /\ "solution_result_ok" \in emitted') =>
            /\ \A x \in miners' : ~SameInvocation(x, m)
            /\ \A f \in FireIds :
                 fees'[f] # fees[f] =>
                   /\ fees[f] = NoFee
                   /\ fees'[f].pc = "addr"
                   /\ MinersOf("fee", f) = {}
            /\ DevFeesNeeded(userSolutionsCount', totalDevFeeSolutions') > 0
                 => \E f \in FireIds : fees'[f].pc = "addr"
     /\ \A f \in FireIds :
          RoundFails(f) =>
            /\ userSolutionsCount' = userSolutionsCount
            /\ solutionsFound' = solutionsFound
            /\ receipts' = receipts
            /\ "solution_result_ok" \notin emitted'
            /\ runs' = runs
            /\ isMining' = isMining
            /\ miners' \ MinersOf("fee", f) = miners \ MinersOf("fee", f)
            /\ \A g \in FeeIds \ {f} : fees'[g] = fees[g]
    ]_vars

\* The fee check an accepted user submission triggered has failed (its fee
\* submission was rejected) and returned, while the end-of-run check of the
\* triggering miner's run has not had its round yet.
C31_Witness ==
  /\ userSolutionsCount = ratio
  /\ totalDevFeeSolutions = 0
  /\ \E rec \in DOMAIN receipts : rec.challenge_id \in Chals /\ ~rec.isDevFee
  /\ \E rec \in DOMAIN errorLog : rec.address = DevFeeAddr
  /\ \A f \in FireIds : fees[f] = NoFee
  /\ \E r \in RunIds : fees[r] = [pc |-> "addr", left |-> 1]

C33_NoopTickChangesNothing ==
  [][\A c \in PollIds :
       (/\ poll[c].pc = "fetch"
        /\ poll'[c].pc = "timer"
        /\ "error" \notin emitted'
        /\ remote = 0 \/ remote = currentChallengeId) =>
         /\ UNCHANGED <<isRunning, isMining, currentChallengeId,
                        currentChallenge>>
         /\ UNCHANGED <<addressesProcessedCurrentChallenge,
                        submittedSolutions, solvedAddressChallenges>>
         /\ romReady' = romReady
         /\ UNCHANGED <<runs, miners, fees>>]_vars

\* A tick has just been answered 'before' while the orchestrator is running.
C33_Witness ==
  /\ "log_before" \in emitted
  /\ isRunning
  /\ remote = 0
  /\ \E c \in PollIds : poll[c].pc = "timer" /\ pollTimer = c

\* The new-challenge transition of poll chain c fails in this step: its
\* tick leaves the ROM initialisation with an error.
TransitionFails(c) ==
  /\ poll[c].pc = "rom"
  /\ poll'[c] = NoPoll \/ "error" \in emitted'

C35_TicksKeepComing ==
  [][\A c \in PollIds :
       /\ (poll[c].pc = "rom" /\ currentChallengeId' = poll[c].chal
             /\ "error" \notin emitted' /\ poll'[c] # poll[c]) =>
            (poll'[c].pc = "timer" /\ pollTimer' = c)
       /\ (isRunning' /\ poll[c].pc # "none" /\ poll'[c].pc = "none") =>
            poll[c].pc = "fetch"]_vars

\* C36: an address is marked registered only in the step in which its own
\* registration returns, and not when that registration failed; a failed
\* registration leaves the registered flags as they were and start() goes on
\* to the next unregistered address; start() leaves the registration phase
\* only when every unregistered address was attempted, and then sets the
\* running flag whatever the outcomes were; and a scheduler run starts
\* miners only for registered addresses.
C36_RegisteredAfterSuccess ==
  [][/\ registered' # registered =>
          /\ startPc = "reg" /\ regTodo # {}
          /\ "registration_failed" \notin emitted'
          /\ registered' = registered \cup {Min(regTodo)}
     /\ "registration_failed" \in emitted' =>
          /\ registered' = registered
          /\ regTodo # {}
     /\ (startPc = "reg" /\ regTodo # {}) =>
          (regTodo' # regTodo =>
             (regTodo' = regTodo \ {Min(regTodo)} /\ startPc' = "reg"))
     /\ (startPc = "reg" /\ startPc' # "reg") =>
          /\ regTodo = {}
          /\ isRunning' /\ startPc' = "idle"
     /\ \A r \in RunIds :
          \A m \in Started(r, miners, miners') :
            m.addr \in registered /\ m.addr \in registered'
    ]_vars

\* The registration of address 1 failed and that of address 2 succeeded:
\* start() reached the running state and only address 2 is mined.
C36_Witness ==
  /\ isRunning
  /\ addresses = 1..workerThreads
  /\ registered = {2}
  /\ \E m \in miners : m.kind = "run" /\ m.addr = 2
  /\ \A m \in miners : m.addr # 1
  /\ 1 \notin addressesProcessedCurrentChallenge

\* The recipient cached before a step and whether it is fresh at the time
\* of the call the step makes.
CachedFresh ==
  /\ feeCall.cache.currentAddress # NoCurrent
  /\ feeCall'.now - feeCall.cache.currentAddress.fetchedAt < ONE_HOUR

\* C37: a call of getDevFeeAddress calls the service exactly when no
\* recipient is cached or the cached one was fetched an hour or more ago;
\* without a call it returns the cached recipient and leaves it as it is; a
\* call answered with a well-formed address returns that address and caches
\* it with use count 0 and the time of the call; a call that fails or is
\* answered with a malformed address leaves the cached recipient as it is
\* and returns it, whatever its age, and throws only when there is none.
C37_CachedRecipient ==
  [][feeCall'.left # feeCall.left =>
       LET old == feeCall.cache.currentAddress
           new == feeCall'.cache.currentAddress
           resp == feeOut'.response
           good == /\ resp.ok
                   /\ \/ StartsWith(resp.devAddress, Tnight1)
                      \/ StartsWith(resp.devAddress, Addr1)
       IN /\ feeOut'.called = ~CachedFresh
          /\ ~feeOut'.called =>
               (feeOut'.result = old.address /\ new = old)
          /\ (feeOut'.called /\ good) =>
               /\ feeOut'.result = resp.devAddress
               /\ new = [address |-> resp.devAddress,
                         addressIndex |-> resp.devAddressIndex,
                         fetchedAt |-> feeCall'.now, usedCount |-> 0]
          /\ (feeOut'.called /\ ~good) =>
               /\ new = old
               /\ feeOut'.result =
                    IF old # NoCurrent THEN old.address ELSE Thrown]_vars

\* A call made an hour after the cached recipient was fetched and used once
\* has failed and returned that recipient.
C37_Witness ==
  /\ feeCall.fn = "getDevFeeAddress"
  /\ feeOut # <<>>
  /\ feeOut.called /\ ~feeOut.response.ok
  /\ feeCall.cache.currentAddress.usedCount = 1
  /\ feeCall.now - feeCall.cache.currentAddress.fetchedAt >= ONE_HOUR
  /\ feeOut.result = feeCall.cache.currentAddress.address
  /\ feeCall.cache.lastFetchError

\* C38: the step that issues a submission POST publishes solution_submit
\* and no solution_result, and solution_submit is published only by such a
\* step, one POST each; the step in which a POST is answered publishes
\* exactly one solution_result event (success or failure) and no
\* solution_submit; and a solution_result event is published only by a step
\* that answers exactly one POST, so each POST in flight lies between its
\* solution_submit and its one solution_result.
C38_SubmitThenOneResult ==
  [][/\ Posted(miners, miners') # {} <=> "solution_submit" \in emitted'
     /\ "solution_submit" \in emitted' =>
          /\ Cardinality(Posted(miners, miners')) = 1
          /\ emitted' \cap {"solution_result_ok", "solution_result_fail"} = {}
          /\ \A m \in Posted(miners, miners') :
               \E x \in miners : x.pc = "hash" /\ SameInvocation(x, m)
     /\ Answered(miners, miners') # {} <=>
          emitted' \cap {"solution_result_ok", "solution_result_fail"} # {}
     /\ Answered(miners, miners') # {} =>
          /\ Cardinality(Answered(miners, miners')) = 1
          /\ Cardinality(emitted' \cap {"solution_result_ok",
                                        "solution_result_fail"}) = 1
          /\ \A m \in Answered(miners, miners') :
               \A x \in miners' : ~SameInvocation(x, m)
    ]_vars

\* A fee submission has just been concluded with success after a user
\* submission and an earlier fee submission were concluded.
C38_Witness ==
  /\ "solution_result_ok" \in emitted
  /\ totalDevFeeSolutions = 1
  /\ userSolutionsCount = ratio
  /\ \E rec \in DOMAIN errorLog : rec.address = DevFeeAddr

\* C39 as stated: the range of worker w starts at w times 1,000,000,000 and
\* its end is below the start of the range of worker w + 1; the range of
\* worker 0 ends at 0x3B9AC9FF and that of worker 1 starts at 0x3B9ACA00.
C39_RangesDisjoint ==
  (nonceArg.fn = "getWorkerNonceRange" /\ nonceOut # <<>>) =>
    LET w == nonceArg.workerId
        start == nonceOut[1]
        end == nonceOut[2]
    IN /\ start = Times(w, Bits(NONCE_RANGE_SIZE))
       /\ Less(end, GetWorkerNonceRangeOf(w + 1)[1])
       /\ w = 0 => ToString16(end) = <<"3", "b", "9", "a", "c", "9", "f", "f">>
       /\ w = 1 => ToString16(start) =
                     <<"3", "b", "9", "a", "c", "a", "0", "0">>
====
